---------------------------- MODULE Spec2Model ----------------------------
(***************************************************************************)
(* Chance-constrained network design (CC-NDP): the Benders-style           *)
(* decomposition of src/src/classes/MasterProblem.py and the scenario      *)
(* subproblems of src/src/classes/SubProblem.py (basic Benders variant,    *)
(* src/src/classes/BB.py).                                                 *)
(*                                                                         *)
(* All quantities are integers.  An LP solve is modelled by its result:    *)
(* the optimal value of the subproblem LP, and, when solution attributes   *)
(* are read (Pi, X), any integral optimal dual / primal solution.  On the  *)
(* networks of the model (integral capacities and demands) the integral    *)
(* primal minimum and the integral dual maximum coincide, so both are the  *)
(* optimum of the LP.                                                      *)
(***************************************************************************)
EXTENDS Integers, Sequences, FiniteSets, TLC

VARIABLES
    data,           \* the ProblemData instance (frozen after construction)
    cache,          \* the lists memoized by @cache on arc_indices_from / _to
    params,         \* alpha, no_vis and the flags of the run
    constrs,        \* master: constraints added with addConstr (_add_vis)
    lazy,           \* master: constraints registered with cbLazy
    subs,           \* one SubProblem per scenario
    pc,             \* "search", "callback", "returned", "raised"
    cand,           \* the candidate (y, z) handed to the running callback
    idx,            \* position of the callback's loop over zip(z, subproblems)
    calls,          \* the calls the running / last callback made, in order
    incumbent,      \* the solver's incumbent (y, z); None when it has none
    status,         \* the master model's status
    lower_bounds,   \* list of MIPSOL_OBJBND values
    incumbent_objs, \* list of MIPSOL_OBJ values
    run_times,      \* list of RUNTIME values
    result          \* the Result returned by solve_decomposition

vars == <<data, cache, params, constrs, lazy, subs, pc, cand, idx, calls, incumbent,
          status, lower_bounds, incumbent_objs, run_times, result>>

\* Python's None, where a record is expected
None == [none |-> TRUE]

\* objVal of a model that has not been solved (the attribute is unavailable)
NoValue == -1

-----------------------------------------------------------------------------
(* Bounds of the model.                                                    *)

\* The search is cut short (time limit) after at most MaxIters incumbents.
MaxIters == 2

-----------------------------------------------------------------------------
(* Small arithmetic helpers.                                               *)

Max2(a, b) == IF a >= b THEN a ELSE b

Min2(a, b) == IF a <= b THEN a ELSE b

RECURSIVE SumTo(_, _)
\* f[1] + ... + f[n]
SumTo(f, n) == IF n = 0 THEN 0 ELSE f[n] + SumTo(f, n - 1)

SumSeq(s) == SumTo(s, Len(s))

RECURSIVE SumOver(_, _)
\* sum of f[e] over the finite set S
SumOver(f, S) ==
    IF S = {} THEN 0
    ELSE LET e == CHOOSE e \in S : TRUE IN f[e] + SumOver(f, S \ {e})

SetMin(S) == CHOOSE m \in S : \A n \in S : m <= n

SetMax(S) == CHOOSE m \in S : \A n \in S : m >= n

\* numpy's a @ b for two vectors of equal length
Dot(a, b) == SumTo([i \in 1 .. Len(a) |-> a[i] * b[i]], Len(a))

-----------------------------------------------------------------------------
(* Problem data: src/src/classes/ProblemData.py.                           *)

Arc(f, t, cap, cost) ==
    [from_node |-> f, to_node |-> t, capacity |-> cap, fixed_cost |-> cost]

Commodity(f, t, demands) == [from_node |-> f, to_node |-> t, demands |-> demands]

\* The networks of the model: nodes, arcs and origin-destination pairs.
\* PathNet is the two-arc path origin -> facility -> destination.
\* dems lists the demand tables (commodity, then scenario) of its instances.
PathNet ==
    [num_nodes |-> 3,
     arcs |-> << Arc(1, 2, 2, 1), Arc(2, 3, 2, 1) >>,
     od |-> << <<1, 3>> >>,
     dems |-> { << <<1, 3>> >>, << <<2, 1>> >> }]

\* TwoRouteNet adds a direct arc from the origin to the destination.
TwoRouteNet ==
    [num_nodes |-> 3,
     arcs |-> << Arc(1, 2, 2, 1), Arc(2, 3, 1, 1), Arc(1, 3, 1, 3) >>,
     od |-> << <<1, 3>> >>,
     dems |-> { << <<1>> >>, << <<2>> >> }]

\* SharedNet: a second commodity starts at the facility, so both share the
\* arc 2 -> 3 and the arc 1 -> 2 enters an origin.
SharedNet ==
    [num_nodes |-> 3,
     arcs |-> << Arc(1, 2, 2, 1), Arc(2, 3, 2, 1) >>,
     od |-> << <<1, 3>>, <<2, 3>> >>,
     dems |-> { << <<1, 2>>, <<1, 1>> >> }]

\* ExampleNet is the two-arc path with the capacities and demands of the
\* end-to-end example: capacity 50, cost 1, demands 10 and 100.
ExampleNet ==
    [num_nodes |-> 3,
     arcs |-> << Arc(1, 2, 50, 1), Arc(2, 3, 50, 1) >>,
     od |-> << <<1, 3>> >>,
     dems |-> { << <<10, 100>> >> }]

Nets == {PathNet, TwoRouteNet, SharedNet, ExampleNet}

ProblemData(net, dem) ==
    [num_nodes |-> net.num_nodes,
     arcs |-> net.arcs,
     commodities |-> [k \in 1 .. Len(net.od) |->
                        Commodity(net.od[k][1], net.od[k][2], dem[k])],
     probabilities |-> [s \in 1 .. Len(dem[1]) |-> 1]]

num_arcs(d) == Len(d.arcs)

num_commodities(d) == Len(d.commodities)

num_scenarios(d) == Len(d.probabilities)

arc_indices_from(d, node) ==
    {a \in 1 .. num_arcs(d) : d.arcs[a].from_node = node}

arc_indices_to(d, node) ==
    {a \in 1 .. num_arcs(d) : d.arcs[a].to_node = node}

origins(d) == {d.commodities[k].from_node : k \in 1 .. num_commodities(d)}

destinations(d) == {d.commodities[k].to_node : k \in 1 .. num_commodities(d)}

-----------------------------------------------------------------------------
(* The second-stage model of one scenario: _create_model of                *)
(* src/src/classes/SubProblem.py.  Rows are the constraints in the order   *)
(* they are added: one capacity row per arc, then, commodity by commodity, *)
(* one row per node.  Columns are the flow variables x[arc, commodity] in  *)
(* row-major order, without the removed ones.                              *)

NumRows(d) == num_arcs(d) + num_commodities(d) * d.num_nodes

Rows(d) == 1 .. NumRows(d)

RowComm(d, r) == ((r - num_arcs(d) - 1) \div d.num_nodes) + 1

RowNode(d, r) == ((r - num_arcs(d) - 1) % d.num_nodes) + 1

\* The kind of constraint row r; it is also the prefix of the row's name.
RowKind(d, r) ==
    IF r <= num_arcs(d) THEN "capacity"
    ELSE LET c == d.commodities[RowComm(d, r)]
             node == RowNode(d, r)
         IN  IF node = c.to_node THEN "demand"
             ELSE IF node = c.from_node THEN "supply"
             ELSE "balance"

senses(d) ==
    [r \in Rows(d) |->
        CASE RowKind(d, r) = "capacity" -> "<"
          [] RowKind(d, r) \in {"demand", "supply"} -> ">"
          [] OTHER -> "="]

\* Superfluous flows: into the commodity's origin or out of its destination.
Removed(d, a, k) ==
    \/ a \in arc_indices_to(d, d.commodities[k].from_node)
    \/ a \in arc_indices_from(d, d.commodities[k].to_node)

AllPairs(d) ==
    [i \in 1 .. num_arcs(d) * num_commodities(d) |->
        << ((i - 1) \div num_commodities(d)) + 1,
           ((i - 1) % num_commodities(d)) + 1 >>]

NotRemoved(d, p) == ~Removed(d, p[1], p[2])

\* The columns of W: the second-stage variables that remain, in order.
Cols(d) ==
    LET RECURSIVE Keep(_)
        Keep(i) == IF i = 0 THEN << >>
                   ELSE IF NotRemoved(d, AllPairs(d)[i])
                        THEN Append(Keep(i - 1), AllPairs(d)[i])
                        ELSE Keep(i - 1)
    IN  Keep(num_arcs(d) * num_commodities(d))

\* T: coefficient of y[a] in row r (capacity rows read x - capacity * y <= 0).
Tcoef(d, r, a) == IF r = a THEN 0 - d.arcs[a].capacity ELSE 0

\* W: coefficient of x[c] in row r, c = <<arc, commodity>>.
Wcoef(d, r, c) ==
    LET a == c[1]
        k == c[2]
    IN  IF r <= num_arcs(d) THEN (IF r = a THEN 1 ELSE 0)
        ELSE IF RowComm(d, r) # k THEN 0
        ELSE LET node == RowNode(d, r)
                 to == IF d.arcs[a].to_node = node THEN 1 ELSE 0
                 frm == IF d.arcs[a].from_node = node THEN 1 ELSE 0
             IN  CASE RowKind(d, r) = "demand" -> to
                   [] RowKind(d, r) = "supply" -> frm
                   [] OTHER -> to - frm

\* h: the right-hand side of row r in scenario scen.
hrow(d, scen, r) ==
    IF RowKind(d, r) \in {"demand", "supply"}
    THEN d.commodities[RowComm(d, r)].demands[scen]
    ELSE 0

hvec(d, scen) == [r \in Rows(d) |-> hrow(d, scen, r)]

\* T y, a vector over the rows
Ty(d, y) ==
    [r \in Rows(d) |->
        SumTo([a \in 1 .. num_arcs(d) |-> Tcoef(d, r, a) * y[a]], num_arcs(d))]

-----------------------------------------------------------------------------
(* The basic Benders subproblem, src/src/classes/BB.py:                    *)
(*     min sum(s)  s.t.  W x + sign * s ~ rhs,  x, s >= 0                  *)
(* with one slack per row, sign +1 on ">" rows, -1 on "<" rows and 0 on    *)
(* "=" rows.  A solution x is a vector over the columns of W.              *)

sense2sign(sense) == CASE sense = ">" -> 1 [] sense = "<" -> -1 [] OTHER -> 0

Skeleton(net) == ProblemData(net, CHOOSE dem \in net.dems : TRUE)

NetOf(d) ==
    CHOOSE n \in Nets :
        /\ n.arcs = d.arcs
        /\ n.num_nodes = d.num_nodes
        /\ n.od = [k \in 1 .. num_commodities(d) |->
                     <<d.commodities[k].from_node, d.commodities[k].to_node>>]

MaxCapacity(net) == SetMax({net.arcs[a].capacity : a \in 1 .. Len(net.arcs)})

MaxDemand(net) ==
    SetMax(UNION {{dem[k][s] : s \in 1 .. Len(dem[k])} :
                    dem \in net.dems, k \in 1 .. Len(net.od)})

\* Values an integral solution gives a flow variable.
FlowVals(net) == 0 .. Max2(MaxDemand(net), MaxCapacity(net))

\* Per network, the matrices every subproblem of the network shares.
Matrices ==
    [net \in Nets |->
        LET d == Skeleton(net)
        IN  [cols |-> Cols(d),
             senses |-> senses(d),
             W |-> [r \in Rows(d) |->
                      [i \in 1 .. Len(Cols(d)) |-> Wcoef(d, r, Cols(d)[i])]]]]

\* (W x)[r]
RowAct(m, x, r) == Dot(m.W[r], x)

RECURSIVE Vectors(_, _)
\* The vectors v of length n with v[i] \in range[i].
Vectors(range, n) ==
    IF n = 0 THEN {<< >>}
    ELSE {Append(v, e) : v \in Vectors(range, n - 1), e \in range[n]}

\* Per network: the integral x >= 0 that satisfy the "=" rows (their
\* right-hand side is 0 for every y: T and h vanish on balance rows), each
\* with its row activities W x.
BalancedFlows ==
    [net \in Nets |->
        LET m == Matrices[net]
            R == Len(m.senses)
            n == Len(m.cols)
        IN  {[x |-> x, act |-> [r \in 1 .. R |-> RowAct(m, x, r)]] :
                x \in {xx \in Vectors([i \in 1 .. n |-> FlowVals(net)], n) :
                        \A r \in 1 .. R :
                            m.senses[r] = "=" => RowAct(m, xx, r) = 0}}]

\* The least slack s[r] >= 0 that makes row r hold at activity act.
\* The row reads act + sign * s ~ rhs.
RowSlack(sense, act, rhs) == Max2(0, sense2sign(sense) * (rhs - act))

\* The slacks s of the cheapest completion of a flow to a solution.
Slacks(m, fl, rhs) ==
    [r \in 1 .. Len(m.senses) |-> RowSlack(m.senses[r], fl.act[r], rhs[r])]

\* sum(s), the objective
SlackCost(m, fl, rhs) == SumSeq(Slacks(m, fl, rhs))

PrimalFeasible(d, rhs) ==
    LET m == Matrices[NetOf(d)]
    IN  {fl \in BalancedFlows[NetOf(d)] :
            \A r \in 1 .. Len(m.senses) : m.senses[r] = "=" => fl.act[r] = rhs[r]}

\* objVal of the subproblem LP with right-hand side rhs.
OptVal(d, rhs) ==
    LET m == Matrices[NetOf(d)]
    IN  SetMin({SlackCost(m, fl, rhs) : fl \in PrimalFeasible(d, rhs)})

\* The optimal (x, s): the values attribute X may hold after a solve.
OptimalPrimal(d, rhs) ==
    LET m == Matrices[NetOf(d)]
    IN  UNION {{fl \in PrimalFeasible(d, rhs) : SlackCost(m, fl, rhs) = opt} :
                 opt \in {OptVal(d, rhs)}}

\* The values an integral dual takes on a row: pi <= 0 on a "<" row and
\* pi >= 0 on a ">" row (a minimisation), and the column of the slack s[r]
\* gives sign * pi[r] <= 1.
DualRange(sense) ==
    CASE sense = "<" -> {-1, 0}
      [] sense = ">" -> {0, 1}
      [] OTHER -> {-1, 0, 1}

\* Per network: the integral dual-feasible vectors of the BB program; the
\* column of x[c] gives pi' W[:, c] <= 0.
DualFeasibleSet ==
    [net \in Nets |->
        LET m == Matrices[net]
            R == Len(m.senses)
        IN  {pi \in Vectors([r \in 1 .. R |-> DualRange(m.senses[r])], R) :
                \A i \in 1 .. Len(m.cols) :
                    SumTo([r \in 1 .. R |-> pi[r] * m.W[r][i]], R) <= 0}]

\* The optimal duals: the values attribute Pi may hold after a solve.
OptimalDuals(d, rhs) ==
    UNION {{pi \in DualFeasibleSet[NetOf(d)] : Dot(pi, rhs) = opt} :
             opt \in {OptVal(d, rhs)}}

-----------------------------------------------------------------------------
(* Cuts: src/src/classes/Cut.py.  A cut is the constraint                  *)
(*     gamma * z[scen] + beta @ y >= gamma.                                *)

Cut(beta, gamma, scen) == [beta |-> beta, gamma |-> gamma, scen |-> scen]

\* Mutant: the term of z is left out of the constraint.
SatisfiesWithoutZ(y, z, cut) == Dot(cut.beta, y) >= cut.gamma

\* Does (y, z) satisfy the cut's constraint?
Satisfies(y, z, cut) == cut.gamma * z[cut.scen] + Dot(cut.beta, y) >= cut.gamma

-----------------------------------------------------------------------------
(* Scenario subproblems: src/src/classes/SubProblem.py.                    *)

\* SubProblem.__init__: the model is built with right-hand side h and has
\* not been solved; _y is the zero vector.
NewSubProblem(d, scen, without_metric_cuts) ==
    [scenario |-> scen,
     without_metric_cuts |-> without_metric_cuts,
     y |-> [a \in 1 .. num_arcs(d) |-> 0],
     rhs |-> hvec(d, scen),
     status |-> "LOADED",
     objVal |-> NoValue]

\* Mutant: negative entries are kept.
UnclampedRhs(d, scen, y) ==
    [r \in Rows(d) |-> hrow(d, scen, r) - Ty(d, y)[r]]

\* rhs = h - T y, negative entries set to 0
ClampedRhs(d, scen, y) ==
    [r \in Rows(d) |-> Max2(0, hrow(d, scen, r) - Ty(d, y)[r])]

\* Mutant: the solution of the last solve is discarded as well.
update_rhs_resetting(d, sub, y) ==
    [sub EXCEPT !.y = y, !.rhs = ClampedRhs(d, sub.scenario, y),
                !.status = "LOADED", !.objVal = NoValue]

\* Mutant: y is stored but the right-hand side is not recomputed.
update_rhs_keeps_rhs(d, sub, y) == [sub EXCEPT !.y = y]

\* Mutant: the right-hand side is recomputed from the previous right-hand
\* side instead of h.
update_rhs_from_rhs(d, sub, y) ==
    [sub EXCEPT !.y = y,
                !.rhs = [r \in Rows(d) |-> Max2(0, sub.rhs[r] - Ty(d, y)[r])]]

update_rhs(d, sub, y) ==
    [sub EXCEPT !.y = y, !.rhs = ClampedRhs(d, sub.scenario, y)]

\* model.optimize(): the BB program always has an optimal solution.
solve(d, sub) ==
    [sub EXCEPT !.status = "OPTIMAL", !.objVal = OptVal(d, sub.rhs)]

objective(sub) == sub.objVal

\* Mutant: every subproblem is reported feasible.
is_feasible_true(sub) == TRUE

\* Mutant: every subproblem is reported infeasible.
is_feasible_false(sub) == FALSE

\* np.isclose(objective, 0.0), on integers
is_feasible(sub) == objective(sub) = 0

\* The graph of SubProblem.__init__ has every arc of the data as an edge.
\* Length of a shortest path under edge weights w; 0 when there is no path
\* (the edge path found is then empty).
ShortestPathLength(d, w, from, to) ==
    LET Inf == 1 + SumTo(w, num_arcs(d))
        RECURSIVE Dist(_)
        \* distances from `from` along paths of at most n arcs
        Dist(n) ==
            IF n = 0 THEN [v \in 1 .. d.num_nodes |-> IF v = from THEN 0 ELSE Inf]
            ELSE LET prev == Dist(n - 1)
                 IN  [v \in 1 .. d.num_nodes |->
                        SetMin({prev[v]} \cup
                               {Min2(Inf, prev[d.arcs[a].from_node] + w[a]) :
                                    a \in arc_indices_to(d, v)})]
        dist == Dist(d.num_nodes - 1)[to]
    IN  IF dist >= Inf THEN 0 ELSE dist

\* Mutant: beta with the wrong sign.
CutBetaNegated(d, duals) ==
    [a \in 1 .. num_arcs(d) |->
        0 - SumTo([r \in Rows(d) |-> duals[r] * Tcoef(d, r, a)], NumRows(d))]

\* beta = duals' T
CutBeta(d, duals) ==
    [a \in 1 .. num_arcs(d) |->
        SumTo([r \in Rows(d) |-> duals[r] * Tcoef(d, r, a)], NumRows(d))]

\* Mutant: the weights are not clamped.
MetricGammaUnclamped(d, scen, duals) ==
    LET pi == [a \in 1 .. num_arcs(d) |-> 0 - duals[a]]
    IN  SumTo([k \in 1 .. num_commodities(d) |->
                 d.commodities[k].demands[scen]
                 * ShortestPathLength(d, pi, d.commodities[k].from_node,
                                      d.commodities[k].to_node)],
              num_commodities(d))

\* The metric constant: demand times the shortest-path length under the
\* weights pi = -duals of the capacity rows, negative weights set to 0.
MetricGamma(d, scen, duals) ==
    LET pi == [a \in 1 .. num_arcs(d) |-> Max2(0, 0 - duals[a])]
    IN  SumTo([k \in 1 .. num_commodities(d) |->
                 d.commodities[k].demands[scen]
                 * ShortestPathLength(d, pi, d.commodities[k].from_node,
                                      d.commodities[k].to_node)],
              num_commodities(d))

\* Mutant: the basic constant is taken from the clamped right-hand side.
FeasibilityCutOfRhs(d, sub, duals) ==
    Cut(CutBeta(d, duals),
        IF sub.without_metric_cuts
        THEN Dot(duals, sub.rhs)
        ELSE MetricGamma(d, sub.scenario, duals),
        sub.scenario)

\* SubProblem.feasibility_cut, for the duals the solver reports.
FeasibilityCutOf(d, sub, duals) ==
    Cut(CutBeta(d, duals),
        IF sub.without_metric_cuts
        THEN Dot(duals, hvec(d, sub.scenario))
        ELSE MetricGamma(d, sub.scenario, duals),
        sub.scenario)

\* The cuts feasibility_cut() may return after a solve.
feasibility_cut(d, sub) ==
    {FeasibilityCutOf(d, sub, duals) : duals \in OptimalDuals(d, sub.rhs)}

\* x of cutset_inequalities: the first n_arcs * n_comm of the model's
\* variables (the flows that remain, then the slacks), as an arcs x
\* commodities array.
CutsetFlows(d, sub, fl) ==
    LET m == Matrices[NetOf(d)]
        allvars == fl.x \o Slacks(m, fl, sub.rhs)
        K == num_commodities(d)
    IN  [a \in 1 .. num_arcs(d) |-> [k \in 1 .. K |-> allvars[(a - 1) * K + k]]]

\* The edge sets of the cuts that separate `from` from `to`.
STCuts(d, from, to) ==
    {{a \in 1 .. num_arcs(d) :
        d.arcs[a].from_node \in S /\ d.arcs[a].to_node \notin S} :
     S \in {SS \in SUBSET (1 .. d.num_nodes) : from \in SS /\ to \notin SS}}

CutValue(capacity, edges) ==
    SumOver([a \in edges |-> capacity[a]], edges)

\* graph.mincut(from, to, capacity): some minimum cut.  With a negative
\* capacity the library's result is not specified: any cut.
mincut(d, from, to, capacity) ==
    IF \E a \in 1 .. num_arcs(d) : capacity[a] < 0
    THEN STCuts(d, from, to)
    ELSE LET least == SetMin({CutValue(capacity, c) : c \in STCuts(d, from, to)})
         IN  {c \in STCuts(d, from, to) : CutValue(capacity, c) = least}

\* arc_residual of cutset_inequalities when X holds the solution fl.
ArcResidual(d, sub, fl) ==
    LET flows == CutsetFlows(d, sub, fl)
    IN  [a \in 1 .. num_arcs(d) |->
            d.arcs[a].capacity * sub.y[a] - SumSeq(flows[a])]

\* The cuts one pass of the loop over the commodities may yield for
\* commodity k: none when the flow out of the origin covers the demand,
\* else one cut per minimum cut the library may return.
CutsetOfCommodity(d, sub, fl, k) ==
    LET flows == CutsetFlows(d, sub, fl)
        demand == d.commodities[k].demands[sub.scenario]
        arcs_out == arc_indices_from(d, d.commodities[k].from_node)
    IN  IF SumOver([a \in arcs_out |-> flows[a][k]], arcs_out) >= demand
        THEN {}
        ELSE {Cut([a \in 1 .. num_arcs(d) |->
                     IF a \in c THEN d.arcs[a].capacity ELSE 0],
                  demand, sub.scenario) :
                c \in mincut(d, d.commodities[k].from_node,
                             d.commodities[k].to_node, ArcResidual(d, sub, fl))}

\* The cuts SubProblem.cutset_inequalities may yield when X holds the
\* optimal solution fl.
CutsetOf(d, sub, fl) ==
    UNION {CutsetOfCommodity(d, sub, fl, k) : k \in 1 .. num_commodities(d)}

\* Every cut cutset_inequalities() may yield after a solve.
cutset_inequalities(d, sub) ==
    UNION {CutsetOf(d, sub, fl) : fl \in OptimalPrimal(d, sub.rhs)}

-----------------------------------------------------------------------------
(* The master problem: src/src/classes/MasterProblem.py.                   *)

BinaryVectors(n) == [1 .. n -> {0, 1}]

\* c, the objective coefficients of y
costs(d) == [a \in 1 .. num_arcs(d) |-> d.arcs[a].fixed_cost]

\* Mutant: the model is built without the constraint "scenarios".
ChanceConstraintDropped(d, alpha, z) == TRUE

\* The constraint "scenarios": z.sum() <= alpha * num_scenarios, with alpha
\* the fraction num / den.
ChanceConstraint(d, alpha, z) ==
    SumSeq(z) * alpha.den <= alpha.num * num_scenarios(d)

\* sum of the capacities of the arcs in idcs, as a vector over all arcs
CapacityOn(d, idcs) ==
    [a \in 1 .. num_arcs(d) |-> IF a \in idcs THEN d.arcs[a].capacity ELSE 0]

DemandOf(d, scen, comms) ==
    SumOver([k \in comms |-> d.commodities[k].demands[scen]], comms)

\* Mutant: the inequalities of an origin are written on the arcs that end
\* at it, those of a destination on the arcs that leave it.
add_vis_reversed(d) ==
    LET K == 1 .. num_commodities(d)
    IN  UNION {
            {Cut(CapacityOn(d, arc_indices_to(d, node)),
                 DemandOf(d, scen, {k \in K : d.commodities[k].from_node = node}),
                 scen) : node \in origins(d)}
            \cup
            {Cut(CapacityOn(d, arc_indices_from(d, node)),
                 DemandOf(d, scen, {k \in K : d.commodities[k].to_node = node}),
                 scen) : node \in destinations(d)}
            : scen \in 1 .. num_scenarios(d)}

\* _add_vis: the valid inequalities cap @ y[idcs] >= demand * (1 - z[scen]).
add_vis(d) ==
    LET K == 1 .. num_commodities(d)
        from_orig == UNION {arc_indices_from(d, node) : node \in origins(d)}
        to_dest == UNION {arc_indices_to(d, node) : node \in destinations(d)}
    IN  UNION {
            {Cut(CapacityOn(d, from_orig), DemandOf(d, scen, K), scen),
             Cut(CapacityOn(d, to_dest), DemandOf(d, scen, K), scen)}
            \cup
            {Cut(CapacityOn(d, arc_indices_from(d, node)),
                 DemandOf(d, scen, {k \in K : d.commodities[k].from_node = node}),
                 scen) : node \in origins(d)}
            \cup
            {Cut(CapacityOn(d, arc_indices_to(d, node)),
                 DemandOf(d, scen, {k \in K : d.commodities[k].to_node = node}),
                 scen) : node \in destinations(d)}
            : scen \in 1 .. num_scenarios(d)}

\* _create_model: the constraints besides "scenarios".
create_model(d, no_vis) == IF no_vis THEN {} ELSE add_vis(d)

\* (y, z) satisfies the chance constraint and every constraint in cs.
MasterFeasible(d, alpha, cs, y, z) ==
    /\ ChanceConstraint(d, alpha, z)
    /\ \A c \in cs : Satisfies(y, z, c)

Solutions(d) == BinaryVectors(num_arcs(d)) \X BinaryVectors(num_scenarios(d))

\* objective value of y
Cost(d, y) == Dot(costs(d), y)

\* The solutions the solver may hand to the callback as a new incumbent:
\* they satisfy every constraint of the model and every lazy constraint
\* added so far, and improve on the incumbent.
IsCandidate(y, z) ==
    /\ MasterFeasible(data, params.alpha, constrs \cup lazy, y, z)
    /\ incumbent # None => Cost(data, y) < Cost(data, incumbent.y)

Candidates == {yz \in Solutions(data) : IsCandidate(yz[1], yz[2])}

\* The best objective bound the solver can have proved: the optimum of the
\* master with the constraints known so far.
BestBound ==
    SetMin({Cost(data, yz[1]) :
              yz \in {s \in Solutions(data) :
                        MasterFeasible(data, params.alpha, constrs \cup lazy,
                                       s[1], s[2])}})

\* The values MIPSOL_OBJBND may have: no bound yet (0, all costs being
\* nonnegative) or the best bound; the bound never decreases.
BoundChoices ==
    IF Candidates = {} THEN {}
    ELSE {b \in {0, BestBound} :
            lower_bounds # << >> => b >= lower_bounds[Len(lower_bounds)]}

\* Mutant: the new cut replaces the lazy constraints added before.
add_cut_replacing(cs, lz, cut, lazily) ==
    IF lazily THEN <<cs, {cut}>> ELSE <<cs \cup {cut}, lz>>

\* Mutant: the cut is built but never handed to the solver.
add_cut_dropped(cs, lz, cut, lazily) == <<cs, lz>>

\* MasterProblem.add_cut(cut, lazy): the constraint set after the call, as
\* <<constraints of the model, lazy constraints>>.
add_cut(cs, lz, cut, lazily) ==
    IF lazily THEN <<cs, lz \cup {cut}>> ELSE <<cs \cup {cut}, lz>>

\* Mutant: the cut sums over the arcs that are built in y.
CombinatorialCutOverBuilt(d, y, scen) ==
    Cut([a \in 1 .. num_arcs(d) |-> IF y[a] = 0 THEN 0 ELSE 1], 1, scen)

\* The combinatorial cut of the callback:
\*     np.isclose(y, 0) @ self._y >= 1 - self._z[sub.scenario]
CombinatorialCut(d, y, scen) ==
    Cut([a \in 1 .. num_arcs(d) |-> IF y[a] = 0 THEN 1 ELSE 0], 1, scen)

Call(op, scen, arg) == [op |-> op, scen |-> scen, arg |-> arg]

-----------------------------------------------------------------------------
(* What the network can carry, by enumeration: the multi-commodity flows   *)
(* of the problem statement, with a flow variable for every arc and        *)
(* commodity and conservation at every node.                               *)

\* Per network: for every integral flow that is conserved at the nodes
\* between origin and destination, the load it puts on each arc and the
\* amount of each commodity it takes from origin to destination.
Routings ==
    [net \in Nets |->
        LET A == Len(net.arcs)
            K == Len(net.od)
            val(f, a, k) == f[(a - 1) * K + k]
            leaving(f, k, v) ==
                LET out == {a \in 1 .. A : net.arcs[a].from_node = v}
                    inc == {a \in 1 .. A : net.arcs[a].to_node = v}
                IN  SumOver([a \in out |-> val(f, a, k)], out)
                    - SumOver([a \in inc |-> val(f, a, k)], inc)
        IN  {[load |-> [a \in 1 .. A |->
                          SumTo([k \in 1 .. K |-> val(f, a, k)], K)],
              amount |-> [k \in 1 .. K |-> leaving(f, k, net.od[k][1])]] :
                f \in {ff \in Vectors([i \in 1 .. A * K |-> FlowVals(net)], A * K) :
                        \A k \in 1 .. K, v \in 1 .. net.num_nodes :
                            v \notin {net.od[k][1], net.od[k][2]}
                                => leaving(ff, k, v) = 0}}]

\* The arcs built in y can carry the demand of scenario scen.
CanCarry(d, y, scen) ==
    \E r \in Routings[NetOf(d)] :
        /\ \A a \in 1 .. num_arcs(d) : r.load[a] <= d.arcs[a].capacity * y[a]
        /\ \A k \in 1 .. num_commodities(d) :
               r.amount[k] = d.commodities[k].demands[scen]

\* The scenarios z does not waive.
NonWaived(z) == {s \in 1 .. Len(z) : z[s] = 0}

\* (y, z) meets the chance constraint for the fraction alpha and y carries
\* every scenario z does not waive.
Admissible(d, alpha, y, z) ==
    /\ SumSeq(z) * alpha.den <= alpha.num * Len(z)
    /\ \A s \in NonWaived(z) : CanCarry(d, y, s)

-----------------------------------------------------------------------------
(* Initial states: a ProblemData instance, the parameters of the run, the  *)
(* master of MasterProblem.__init__ and one subproblem per scenario        *)
(* (run_decomp of src/src/solve.py).                                       *)

Alphas == {[num |-> 0, den |-> 1], [num |-> 1, den |-> 2]}

Instances ==
    UNION {{ProblemData(net, dem) : dem \in net.dems} : net \in Nets \ {ExampleNet}}

Params ==
    [alpha : Alphas,
     no_vis : BOOLEAN,
     with_combinatorial_cut : BOOLEAN,
     without_metric_cuts : BOOLEAN,
     with_cutset_inequalities : {TRUE}]

\* An entry of the memo of a @cache method: the list object it holds.
NotCached == [cached |-> FALSE, value |-> << >>]

Cached(list) == [cached |-> TRUE, value |-> list]

\* No call of arc_indices_from / arc_indices_to has been memoized.
EmptyCache(d) ==
    [arc_indices_from |-> [node \in 1 .. d.num_nodes |-> NotCached],
     arc_indices_to |-> [node \in 1 .. d.num_nodes |-> NotCached]]

\* The master and the subproblems of a run on data.
Constructed ==
    /\ cache = EmptyCache(data)
    /\ params \in Params
    /\ constrs = create_model(data, params.no_vis)
    /\ lazy = {}
    /\ subs = [s \in 1 .. num_scenarios(data) |->
                 NewSubProblem(data, s, params.without_metric_cuts)]
    /\ pc = "search"
    /\ cand = None
    /\ idx = 0
    /\ calls = << >>
    /\ incumbent = None
    /\ status = "LOADED"
    /\ lower_bounds = << >>
    /\ incumbent_objs = << >>
    /\ run_times = << >>
    /\ result = None

Init == data \in Instances /\ Constructed

-----------------------------------------------------------------------------
(* solve_decomposition: the callback and the search of the solver.         *)

\* Mutant: the bound is recorded only when it differs from the last one.
MipsolNewBoundOnly(y, z, bnd) ==
    /\ pc = "search"
    /\ IsCandidate(y, z)
    /\ lower_bounds' = IF lower_bounds # << >> /\ lower_bounds[Len(lower_bounds)] = bnd
                       THEN lower_bounds
                       ELSE Append(lower_bounds, bnd)
    /\ incumbent_objs' = Append(incumbent_objs, Cost(data, y))
    /\ run_times' = Append(run_times, Len(run_times) + 1)
    /\ cand' = [y |-> y, z |-> z]
    /\ idx' = 1
    /\ calls' = << >>
    /\ pc' = "callback"
    /\ UNCHANGED <<data, cache, params, constrs, lazy, subs, incumbent, status, result>>

\* The solver finds a new incumbent candidate and calls the callback with
\* where = MIPSOL: the callback records bound, objective and run time and
\* reads the candidate (lines 161-171).  The solver's clock is modelled as
\* one tick per incumbent.
Mipsol(y, z, bnd) ==
    /\ pc = "search"
    /\ IsCandidate(y, z)
    /\ lower_bounds' = Append(lower_bounds, bnd)
    /\ incumbent_objs' = Append(incumbent_objs, Cost(data, y))
    /\ run_times' = Append(run_times, Len(run_times) + 1)
    /\ cand' = [y |-> y, z |-> z]
    /\ idx' = 1
    /\ calls' = << >>
    /\ pc' = "callback"
    /\ UNCHANGED <<data, cache, params, constrs, lazy, subs, incumbent, status, result>>

\* The callback is called for another event (where # MIPSOL) and returns
\* at once (lines 158-159).
OtherEvent ==
    /\ pc = "search"
    /\ UNCHANGED vars

\* Mutant: no scenario is skipped.
WaivedNever(z_i) == FALSE

\* "if z_i == 1": the scenario is waived in this iteration.
Waived(z_i) == z_i = 1

\* One pass of the loop over zip(z, subproblems) (lines 173-193), for the
\* scenario at position idx.
Scenario ==
    /\ pc = "callback"
    /\ idx <= num_scenarios(data)
    /\ idx' = idx + 1
    /\ IF Waived(cand.z[idx])
       THEN UNCHANGED <<subs, lazy, constrs, calls>>
       ELSE \E sub \in {solve(data, update_rhs(data, subs[idx], cand.y))} :
            LET evaluated == calls \o << Call("update_rhs", idx, cand.y),
                                         Call("solve", idx, None),
                                         Call("is_feasible", idx, is_feasible(sub)) >>
            IN  /\ subs' = [subs EXCEPT ![idx] = sub]
                /\ IF is_feasible(sub)
                   THEN /\ UNCHANGED <<lazy, constrs>>
                        /\ calls' = evaluated
                   ELSE \E cut \in feasibility_cut(data, sub) :
                        LET comb == CombinatorialCut(data, cand.y, sub.scenario)
                            first == add_cut(constrs, lazy, cut, TRUE)
                        IN  /\ constrs' = first[1]
                            /\ lazy' = IF params.with_combinatorial_cut
                                       THEN first[2] \cup {comb}
                                       ELSE first[2]
                            /\ calls' = evaluated
                                   \o << Call("add_cut", idx, cut) >>
                                   \o (IF params.with_combinatorial_cut
                                       THEN << Call("cbLazy", idx, comb) >>
                                       ELSE << >>)
    /\ UNCHANGED <<data, cache, params, pc, cand, incumbent, status, lower_bounds,
                   incumbent_objs, run_times, result>>

\* The callback returns.  The solver keeps the candidate as its incumbent
\* unless a lazy constraint cuts it off.
CallbackReturn ==
    /\ pc = "callback"
    /\ idx > num_scenarios(data)
    /\ pc' = "search"
    /\ incumbent' = IF \A c \in lazy : Satisfies(cand.y, cand.z, c)
                    THEN cand
                    ELSE incumbent
    /\ UNCHANGED <<data, cache, params, constrs, lazy, subs, cand, idx, calls, status,
                   lower_bounds, incumbent_objs, run_times, result>>

\* np.diff(run_times, prepend=0)
Diff(times) ==
    [i \in 1 .. Len(times) |-> IF i = 1 THEN times[1] ELSE times[i] - times[i - 1]]

\* Result of src/src/classes/Result.py; is_optimal defaults to True.
Result(decisions, decision_costs, bounds, objectives, times) ==
    [decisions |-> decisions,
     decision_costs |-> decision_costs,
     bounds |-> bounds,
     objectives |-> objectives,
     run_times |-> times,
     is_optimal |-> TRUE]

\* optimize() returns with status st and solve_decomposition builds the
\* Result (lines 195-203).  Reading the decisions raises when the solver
\* has no solution.
Return(st) ==
    /\ status' = st
    /\ IF incumbent = None
       THEN /\ pc' = "raised"
            /\ UNCHANGED result
       ELSE /\ pc' = "returned"
            /\ result' = Result(incumbent.y, costs(data), lower_bounds,
                                incumbent_objs, Diff(run_times))
    /\ UNCHANGED <<data, cache, params, constrs, lazy, subs, cand, idx, calls, incumbent,
                   lower_bounds, incumbent_objs, run_times>>

\* The search is exhausted: no solution improves on the incumbent.
SearchEnds ==
    /\ pc = "search"
    /\ Candidates = {}
    /\ Return(IF incumbent = None THEN "INFEASIBLE" ELSE "OPTIMAL")

\* The solver runs out of time.
TimeLimit ==
    /\ pc = "search"
    /\ Return("TIME_LIMIT")

-----------------------------------------------------------------------------
(* The deterministic equivalent, src/src/classes/DeterministicEquivalent.py *)
(* (run_deq of src/src/solve.py): the master's model with, per scenario,   *)
(* a copy of the subproblem's flow variables x >= 0 and the rows           *)
(*     T y + W x + 1.01 * h * z ~ h.                                       *)

\* The factor 1.01 of _add_subproblem, in hundredths.
DeqScale == 100

DeqFactor == 101

\* The rows without the term of z: T y + W x ~ h.
deq_rows_without_z(d, scen, y, z_s, act) ==
    \A r \in Rows(d) :
        LET lhs == DeqScale * (Ty(d, y)[r] + act[r])
            rhs == DeqScale * hrow(d, scen, r)
        IN  CASE senses(d)[r] = "<" -> lhs <= rhs
              [] senses(d)[r] = ">" -> lhs >= rhs
              [] OTHER -> lhs = rhs

\* _add_subproblem (lines 65-85): some x >= 0 satisfies the rows of
\* scenario scen at (y, z_s).  Both sides are scaled by DeqScale.
deq_rows(d, scen, y, z_s, act) ==
    \A r \in Rows(d) :
        LET lhs == DeqScale * (Ty(d, y)[r] + act[r])
                   + DeqFactor * hrow(d, scen, r) * z_s
            rhs == DeqScale * hrow(d, scen, r)
        IN  CASE senses(d)[r] = "<" -> lhs <= rhs
              [] senses(d)[r] = ">" -> lhs >= rhs
              [] OTHER -> lhs = rhs

add_subproblem(d, scen, y, z_s) ==
    \E fl \in BalancedFlows[NetOf(d)] : deq_rows(d, scen, y, z_s, fl.act)

\* __init__ (lines 21-35): the solutions (y, z) of the copied master model
\* cs that extend to flows for every scenario.
DeqSolutions(d, alpha, cs) ==
    {yz \in Solutions(d) :
        /\ MasterFeasible(d, alpha, cs, yz[1], yz[2])
        /\ \A scen \in 1 .. num_scenarios(d) :
               add_subproblem(d, scen, yz[1], yz[2][scen])}

\* objVal of the deterministic equivalent
DeqObjective(d, alpha, cs) ==
    SetMin({Cost(d, yz[1]) : yz \in DeqSolutions(d, alpha, cs)})

\* solve (lines 37-63) without a time limit: None when there is no
\* solution, otherwise the Result of an optimal solution.
DeqResults(d, alpha, cs) ==
    IF DeqSolutions(d, alpha, cs) = {}
    THEN {None}
    ELSE {Result(yz[1], costs(d), <<Cost(d, yz[1])>>, <<Cost(d, yz[1])>>, <<1>>) :
            yz \in {s \in DeqSolutions(d, alpha, cs) :
                        Cost(d, s[1]) = DeqObjective(d, alpha, cs)}}

\* run_deq: the program is started with the deq command instead of decomp.
DeqSolve ==
    /\ pc = "search"
    /\ status = "LOADED"
    /\ incumbent_objs = << >>
    /\ \E res \in DeqResults(data, params.alpha, constrs) :
           /\ result' = res
           /\ pc' = IF res = None THEN "deq_none" ELSE "deq_returned"
    /\ status' = IF DeqSolutions(data, params.alpha, constrs) = {}
                 THEN "INFEASIBLE"
                 ELSE "OPTIMAL"
    /\ UNCHANGED <<data, cache, params, constrs, lazy, subs, cand, idx, calls, incumbent,
                   lower_bounds, incumbent_objs, run_times>>

\* The time limit leaves room for at most MaxIters incumbents.
Next ==
    \/ /\ Len(incumbent_objs) < MaxIters
       /\ \E yz \in Candidates, bnd \in BoundChoices : Mipsol(yz[1], yz[2], bnd)
    \/ OtherEvent
    \/ Scenario
    \/ CallbackReturn
    \/ SearchEnds
    \/ TimeLimit
    \/ DeqSolve

Spec == Init /\ [][Next]_vars

-----------------------------------------------------------------------------
(* The search without a time limit.  The solver keeps working until the    *)
(* search is exhausted, so every step that is possible is eventually       *)
(* taken.                                                                  *)

FairInstances == {ProblemData(PathNet, << <<1, 3>> >>)}

FairInit == Init /\ data \in FairInstances

\* The solver reports the best bound with every incumbent.
FairNext ==
    \/ \E yz \in Candidates : Mipsol(yz[1], yz[2], BestBound)
    \/ OtherEvent
    \/ Scenario
    \/ CallbackReturn
    \/ SearchEnds

FairSpec == FairInit /\ [][FairNext]_vars /\ WF_vars(FairNext)

-----------------------------------------------------------------------------
(* add_cut with lazy = False: a client adds cuts as normal constraints     *)
(* before the search starts; the search then runs as before.               *)

\* Most cuts a client adds before the search.
MaxClientCuts == 1

\* The cuts the client adds: on the capacity of all arcs or of the first
\* arc, for a unit of demand of one scenario.
ClientCuts ==
    {Cut([a \in 1 .. num_arcs(data) |->
            IF a \in arcs THEN data.arcs[a].capacity ELSE 0], 1, scen) :
        arcs \in {1 .. num_arcs(data), {1}}, scen \in 1 .. num_scenarios(data)}

CutInit ==
    /\ FairInit
    /\ params.alpha = [num |-> 1, den |-> 2]
    /\ params.no_vis
    /\ ~params.with_combinatorial_cut

\* master.add_cut(cut, lazy=False) before optimize()
AddConstraint(cut) ==
    /\ pc = "search"
    /\ status = "LOADED"
    /\ incumbent_objs = << >>
    /\ Cardinality(constrs \ create_model(data, params.no_vis)) < MaxClientCuts
    /\ \E after \in {add_cut(constrs, lazy, cut, FALSE)} :
           /\ constrs' = after[1]
           /\ lazy' = after[2]
    /\ UNCHANGED <<data, cache, params, subs, pc, cand, idx, calls, incumbent, status,
                   lower_bounds, incumbent_objs, run_times, result>>

CutNext ==
    \/ \E cut \in ClientCuts : AddConstraint(cut)
    \/ \E yz \in Candidates : Mipsol(yz[1], yz[2], BestBound)
    \/ OtherEvent
    \/ Scenario
    \/ CallbackReturn
    \/ SearchEnds

CutSpec == CutInit /\ [][CutNext]_vars

-----------------------------------------------------------------------------
(* The end-to-end example: the same search, without a time limit, on the   *)
(* example instance with alpha = 0.5.                                      *)

Example == ProblemData(ExampleNet, << <<10, 100>> >>)

ExampleInit ==
    /\ data = Example
    /\ Constructed
    /\ params.alpha = [num |-> 1, den |-> 2]

ExampleSpec == ExampleInit /\ [][FairNext]_vars /\ WF_vars(FairNext)

-----------------------------------------------------------------------------
(* The methods of a subproblem, called one at a time by a client: the      *)
(* callback of solve_decomposition is one such client.  calls holds the    *)
(* last call with what it returned or raised, and the status optimize()    *)
(* left the model in.                                                      *)

\* The statuses optimize() may leave a subproblem's model in: the program
\* always has an optimal solution, and the solver may stop before it has
\* found it.
SolveStatuses == {"OPTIMAL", "TIME_LIMIT"}

Raised(error) == [raised |-> error]

Returned(op, scen, value) ==
    Call(op, scen, [returned |-> value, status |-> subs[scen].status])

SubInit ==
    /\ data \in FairInstances
    /\ Constructed
    /\ params.alpha = [num |-> 0, den |-> 1]
    /\ ~params.no_vis
    /\ ~params.with_combinatorial_cut

SubFrame ==
    UNCHANGED <<data, cache, params, constrs, lazy, cand, idx, incumbent, status,
                lower_bounds, incumbent_objs, run_times, result>>

\* sub.update_rhs(y)
SubUpdateRhs(s, y) ==
    /\ pc = "search"
    /\ subs' = [subs EXCEPT ![s] = update_rhs(data, subs[s], y)]
    /\ calls' = << Call("update_rhs", s, [returned |-> None, status |-> subs[s].status]) >>
    /\ pc' = pc
    /\ SubFrame

\* sub.solve(): model.optimize() and nothing else (lines 173-174); it
\* returns whatever status the solver ends with.
SubSolve(s, st) ==
    /\ pc = "search"
    /\ subs' = [subs EXCEPT ![s] = IF st = "OPTIMAL"
                                   THEN solve(data, subs[s])
                                   ELSE [subs[s] EXCEPT !.status = st,
                                                        !.objVal = NoValue]]
    /\ calls' = << Call("solve", s, [returned |-> None, status |-> st]) >>
    /\ pc' = pc
    /\ SubFrame

\* sub.objective(): assert self.model.status == GRB.OPTIMAL (lines 169-171)
SubObjective(s) ==
    /\ pc = "search"
    /\ IF subs[s].status = "OPTIMAL"
       THEN /\ calls' = << Returned("objective", s, objective(subs[s])) >>
            /\ pc' = pc
       ELSE /\ calls' = << Call("objective", s, Raised("AssertionError")) >>
            /\ pc' = "raised"
    /\ UNCHANGED subs
    /\ SubFrame

\* sub.is_feasible(): np.isclose(self.objective(), 0.0) (lines 166-167)
SubIsFeasible(s) ==
    /\ pc = "search"
    /\ IF subs[s].status = "OPTIMAL"
       THEN /\ calls' = << Returned("is_feasible", s, is_feasible(subs[s])) >>
            /\ pc' = pc
       ELSE /\ calls' = << Call("is_feasible", s, Raised("AssertionError")) >>
            /\ pc' = "raised"
    /\ UNCHANGED subs
    /\ SubFrame

\* sub.feasibility_cut(): reads the attribute Pi without looking at the
\* status (lines 139-140).  After an optimal solve the duals are optimal;
\* otherwise the solver has no duals (the read raises) or has the duals of
\* the point it stopped at.
SubFeasibilityCut(s) ==
    /\ pc = "search"
    /\ CASE subs[s].status = "OPTIMAL" ->
              /\ \E cut \in feasibility_cut(data, subs[s]) :
                     calls' = << Returned("feasibility_cut", s, cut) >>
              /\ pc' = pc
         [] subs[s].status = "LOADED" ->
              /\ calls' = << Call("feasibility_cut", s, Raised("GurobiError")) >>
              /\ pc' = "raised"
         [] OTHER ->
              \/ /\ calls' = << Call("feasibility_cut", s, Raised("GurobiError")) >>
                 /\ pc' = "raised"
              \/ /\ \E duals \in DualFeasibleSet[NetOf(data)] :
                        calls' = << Returned("feasibility_cut", s,
                                             FeasibilityCutOf(data, subs[s], duals)) >>
                 /\ pc' = pc
    /\ UNCHANGED subs
    /\ SubFrame

\* list(sub.cutset_inequalities()): reads the attribute X without looking
\* at the status (line 105).  After an optimal solve X is an optimal
\* solution; otherwise the solver has no solution (the read raises) or has
\* the point it stopped at.
SubCutsetInequalities(s) ==
    /\ pc = "search"
    /\ CASE subs[s].status = "OPTIMAL" ->
              /\ \E fl \in OptimalPrimal(data, subs[s].rhs) :
                     calls' = << Returned("cutset_inequalities", s,
                                          CutsetOf(data, subs[s], fl)) >>
              /\ pc' = pc
         [] subs[s].status = "LOADED" ->
              /\ calls' = << Call("cutset_inequalities", s, Raised("GurobiError")) >>
              /\ pc' = "raised"
         [] OTHER ->
              \/ /\ calls' = << Call("cutset_inequalities", s, Raised("GurobiError")) >>
                 /\ pc' = "raised"
              \/ /\ \E fl \in PrimalFeasible(data, subs[s].rhs) :
                        calls' = << Returned("cutset_inequalities", s,
                                             CutsetOf(data, subs[s], fl)) >>
                 /\ pc' = pc
    /\ UNCHANGED subs
    /\ SubFrame

SubNext ==
    \/ \E s \in 1 .. num_scenarios(data), y \in BinaryVectors(num_arcs(data)) :
           SubUpdateRhs(s, y)
    \/ \E s \in 1 .. num_scenarios(data), st \in SolveStatuses : SubSolve(s, st)
    \/ \E s \in 1 .. num_scenarios(data) : SubObjective(s)
    \/ \E s \in 1 .. num_scenarios(data) : SubIsFeasible(s)
    \/ \E s \in 1 .. num_scenarios(data) : SubFeasibilityCut(s)
    \/ \E s \in 1 .. num_scenarios(data) : SubCutsetInequalities(s)

SubSpec == SubInit /\ [][SubNext]_vars

-----------------------------------------------------------------------------
(* The subproblem formulations of src/src/classes: run_decomp constructs   *)
(* FORMULATIONS[args.formulation](data, scen, without_metric_cuts) for     *)
(* every scenario, and the subproblems are then evaluated.                 *)

FORMULATIONS == {"BB", "FlowMIS", "MIS", "SNC"}

\* _set_vars of SNC (inherited by FlowMIS) and of MIS take a second
\* positional parameter, master.
SetVarsParameters(formulation) == IF formulation = "BB" THEN 0 ELSE 1

\* SubProblem.__init__ calls self._set_vars() without arguments (line 77):
\* the error the constructor raises, or None.
init_error(formulation) ==
    IF SetVarsParameters(formulation) = 0 THEN None ELSE Raised("TypeError")

VariantInit ==
    /\ data \in Instances
    /\ cache = EmptyCache(data)
    /\ params \in [formulation : FORMULATIONS, without_metric_cuts : BOOLEAN]
    /\ pc = "create"
    /\ subs = << >>
    /\ calls = << >>
    /\ constrs = {}
    /\ lazy = {}
    /\ cand = None
    /\ idx = 0
    /\ incumbent = None
    /\ status = "LOADED"
    /\ lower_bounds = << >>
    /\ incumbent_objs = << >>
    /\ run_times = << >>
    /\ result = None

\* cls(data, scen, args.without_metric_cuts) for the next scenario
CreateSubProblem ==
    /\ pc = "create"
    /\ Len(subs) < num_scenarios(data)
    /\ IF init_error(params.formulation) = None
       THEN /\ subs' = Append(subs, NewSubProblem(data, Len(subs) + 1,
                                                  params.without_metric_cuts))
            /\ UNCHANGED <<pc, calls>>
       ELSE /\ pc' = "raised"
            /\ calls' = << Call("__init__", Len(subs) + 1,
                                init_error(params.formulation)) >>
            /\ UNCHANGED subs
    /\ SubFrame

\* update_rhs(y); solve() on the subproblem of scenario s
EvaluateSubProblem(s, y) ==
    /\ pc = "create"
    /\ Len(subs) = num_scenarios(data)
    /\ subs' = [subs EXCEPT ![s] = solve(data, update_rhs(data, subs[s], y))]
    /\ UNCHANGED <<pc, calls>>
    /\ SubFrame

VariantNext ==
    \/ CreateSubProblem
    \/ \E s \in 1 .. num_scenarios(data), y \in BinaryVectors(num_arcs(data)) :
           EvaluateSubProblem(s, y)

VariantSpec == VariantInit /\ [][VariantNext]_vars

-----------------------------------------------------------------------------
(* Construction of the data: ProblemData.__post_init__ and                 *)
(* Node.__post_init__ on the fields handed to the constructor.             *)

\* Longest list of commodities and of probabilities handed to ProblemData.
MaxFields == 2

\* Probabilities handed to the constructor, in halves.
ProbabilityValues == -1 .. 2

ListsOver(S) == UNION {[1 .. n -> S] : n \in 1 .. MaxFields}

\* Fields of a ProblemData on the three nodes of the networks above.
ProblemDataFields ==
    {[kind |-> "ProblemData",
      num_nodes |-> 3,
      arcs |-> PathNet.arcs,
      commodities |-> [k \in 1 .. Len(od) |->
                         Commodity(od[k][1], od[k][2],
                                   [s \in 1 .. Len(probs) |-> 1])],
      probabilities |-> probs] :
        od \in ListsOver({<<1, 2>>, <<1, 3>>, <<2, 3>>}),
        probs \in ListsOver(ProbabilityValues)}

NodeFields ==
    {[kind |-> "Node", is_source |-> src, is_sink |-> snk] :
        src \in BOOLEAN, snk \in BOOLEAN}

ValueError(msg) == [raised |-> "ValueError", msg |-> msg]

\* Mutant: only negative probabilities are refused.
IsNegative(p) == p < 0

\* p <= 0
IsNonPositive(p) == p <= 0

\* ProblemData.__post_init__: the error it raises, or None.
ProblemData_post_init(f) ==
    LET od_pairs == [k \in 1 .. Len(f.commodities) |->
                       <<f.commodities[k].from_node, f.commodities[k].to_node>>]
    IN  IF Len(od_pairs) # Cardinality({od_pairs[k] : k \in 1 .. Len(od_pairs)})
        THEN ValueError("Not all O-D pairs are unique; please aggregate commodities.")
        ELSE IF \E s \in 1 .. Len(f.probabilities) : IsNonPositive(f.probabilities[s])
             THEN ValueError("Non-positive probability.")
             ELSE None

\* Node.__post_init__: the error it raises, or None.
Node_post_init(f) ==
    IF f.is_sink /\ f.is_source
    THEN ValueError("Cannot be sink *and* source.")
    ELSE None

post_init(f) ==
    IF f.kind = "Node" THEN Node_post_init(f) ELSE ProblemData_post_init(f)

\* Before the constructor runs: data holds the fields handed to it.
ConstructInit ==
    /\ data \in ProblemDataFields \cup NodeFields
    /\ cache = [arc_indices_from |-> << >>, arc_indices_to |-> << >>]
    /\ pc = "construct"
    /\ result = None
    /\ params = None
    /\ constrs = {}
    /\ lazy = {}
    /\ subs = << >>
    /\ cand = None
    /\ idx = 0
    /\ calls = << >>
    /\ incumbent = None
    /\ status = "LOADED"
    /\ lower_bounds = << >>
    /\ incumbent_objs = << >>
    /\ run_times = << >>

\* The dataclass constructor stores the fields and runs __post_init__; the
\* instance exists only when __post_init__ returns.
Construct ==
    /\ pc = "construct"
    /\ post_init(data) = None
    /\ pc' = "constructed"
    /\ result' = data
    /\ UNCHANGED <<data, cache, params, constrs, lazy, subs, cand, idx, calls, incumbent,
                   status, lower_bounds, incumbent_objs, run_times>>

ConstructRaises ==
    /\ pc = "construct"
    /\ post_init(data) # None
    /\ pc' = "raised"
    /\ calls' = <<post_init(data)>>
    /\ UNCHANGED <<data, cache, params, constrs, lazy, subs, cand, idx, incumbent, status,
                   lower_bounds, incumbent_objs, run_times, result>>

ConstructNext == Construct \/ ConstructRaises

ConstructSpec == ConstructInit /\ [][ConstructNext]_vars

-----------------------------------------------------------------------------
(* Properties.                                                             *)

AllScenarios == 1 .. num_scenarios(data)

\* The loop of the callback has run over every scenario for cand.
Evaluated == cand # None /\ idx > num_scenarios(data)

\* The cuts handed to the solver in the current callback.
AddedNow ==
    {calls[i].arg : i \in {j \in 1 .. Len(calls) : calls[j].op \in {"add_cut", "cbLazy"}}}

\* The operations the current callback called for scenario s.
OpsFor(s) == {calls[i].op : i \in {j \in 1 .. Len(calls) : calls[j].scen = s}}

\* Scenario s was evaluated in the current callback and found infeasible.
InfeasibleAt(s) ==
    /\ cand # None
    /\ s < idx
    /\ ~Waived(cand.z[s])
    /\ ~is_feasible(subs[s])

NoWaiver == [s \in AllScenarios |-> 0]

BuildAll == [a \in 1 .. num_arcs(data) |-> 1]

C2_ChanceConstraintRespected ==
    \A sol \in {cand, incumbent} \ {None} :
        /\ \A s \in AllScenarios : sol.z[s] \in {0, 1}
        /\ SumSeq(sol.z) * params.alpha.den
              <= params.alpha.num * num_scenarios(data)

\* A candidate that waives a scenario is evaluated after cuts were added.
C2_Witness ==
    /\ pc = "callback"
    /\ lazy # {}
    /\ SumSeq(cand.z) = 1
    /\ incumbent # None

\* The cuts the callback may add for scenario s: the feasibility cut
\* (metric or basic, as configured) and the combinatorial cut.
CallbackCuts(s) ==
    feasibility_cut(data, subs[s]) \cup {CombinatorialCut(data, cand.y, s)}

C4_OracleConsistent ==
    \A s \in AllScenarios :
        subs[s].status = "OPTIMAL" =>
            (is_feasible(subs[s]) <=> CanCarry(data, subs[s].y, s))

\* Both answers of the oracle, for a y that builds some but not all arcs.
C4_Witness ==
    /\ \E s \in AllScenarios : subs[s].status = "OPTIMAL" /\ is_feasible(subs[s])
    /\ \E s \in AllScenarios :
          /\ subs[s].status = "OPTIMAL"
          /\ ~is_feasible(subs[s])
          /\ subs[s].y \notin {BuildAll, [a \in 1 .. num_arcs(data) |-> 0]}

\* C5: when the callback has run over every scenario, for every scenario
\* that is not waived and cannot be carried a feasibility cut is among the
\* lazy constraints, the combinatorial cut too when with_combinatorial_cut
\* is set, and, when with_cutset_inequalities is set, so is every cutset
\* inequality the generator yields for some solution the solver may
\* report; all of them on the waiver variable of that scenario.
C5_EveryCutAdded ==
    Evaluated =>
        \A s \in NonWaived(cand.z) :
            ~CanCarry(data, cand.y, s) =>
                /\ \E cut \in feasibility_cut(data, subs[s]) :
                      cut \in lazy /\ cut.scen = s
                /\ params.with_combinatorial_cut =>
                      CombinatorialCut(data, cand.y, s) \in lazy
                /\ params.with_cutset_inequalities =>
                      \E fl \in OptimalPrimal(data, subs[s].rhs) :
                          \A k \in 1 .. num_commodities(data) :
                              \/ CutsetOfCommodity(data, subs[s], fl, k) = {}
                              \/ \E cut \in CutsetOfCommodity(data, subs[s], fl, k) :
                                    cut \in constrs \cup lazy

\* C6: in the current callback, a scenario the loop has passed was updated
\* with y and solved exactly when its z is 0; for a waived scenario nothing
\* was called, and the pass over it leaves the subproblems and the
\* constraints of the master as they were.
C6_Called ==
    cand # None =>
        \A s \in AllScenarios :
            s < idx =>
                IF cand.z[s] = 0
                THEN /\ {"update_rhs", "solve"} \subseteq OpsFor(s)
                     /\ subs[s].y = cand.y
                     /\ subs[s].status = "OPTIMAL"
                ELSE OpsFor(s) = {}

C6_WaivedUntouched ==
    (pc = "callback" /\ idx <= num_scenarios(data) /\ cand.z[idx] = 1)
        => UNCHANGED <<subs, constrs, lazy>>

C7_FeasibleAddsNothing ==
    [][(pc = "callback" /\ idx <= num_scenarios(data)
            /\ cand.z[idx] = 0 /\ CanCarry(data, cand.y, idx))
        => UNCHANGED <<constrs, lazy>>]_vars

\* The loop has just passed a feasible scenario that is not waived, after
\* an earlier callback added cuts.
C7_Witness ==
    /\ pc = "callback"
    /\ idx > 1
    /\ cand.z[idx - 1] = 0
    /\ CanCarry(data, cand.y, idx - 1)
    /\ "is_feasible" \in OpsFor(idx - 1)
    /\ lazy # {}
    /\ AddedNow = {}

\* C8: when the solver stops on its time limit with an incumbent,
\* solve_decomposition returns a Result with is_optimal = false; and
\* is_optimal is true only when the solve ended optimal.
C8_TimeLimitNotOptimal ==
    /\ (status = "TIME_LIMIT" /\ incumbent # None) =>
          /\ pc = "returned"
          /\ result.decisions = incumbent.y
          /\ result.is_optimal = FALSE
    /\ (pc = "returned" /\ result.is_optimal) => status = "OPTIMAL"

\* The (y, z) that meet the chance constraint and carry every scenario
\* that is not waived.
AdmissiblePairs ==
    {yz \in Solutions(data) : Admissible(data, params.alpha, yz[1], yz[2])}

Finished == pc \in {"returned", "raised"}

\* When the search has ended, the incumbent is an admissible (y, z) of
\* least cost (there is none exactly when no (y, z) is admissible).
C9_EndsOptimal ==
    Finished =>
        IF AdmissiblePairs = {}
        THEN incumbent = None /\ status = "INFEASIBLE"
        ELSE /\ pc = "returned"
             /\ status = "OPTIMAL"
             /\ <<incumbent.y, incumbent.z>> \in AdmissiblePairs
             /\ result.decisions = incumbent.y
             /\ \A yz \in AdmissiblePairs :
                   Cost(data, incumbent.y) <= Cost(data, yz[1])

\* A candidate that was evaluated and is not admissible is no candidate
\* any more once the callback has returned.
C9_RejectedExcluded ==
    (pc = "search" /\ cand # None /\ <<cand.y, cand.z>> \notin AdmissiblePairs)
        => /\ ~IsCandidate(cand.y, cand.z)
           /\ incumbent # cand

C10_CutsAppendOnly ==
    [][/\ constrs \subseteq constrs'
       /\ lazy \subseteq lazy'
       /\ (constrs' # constrs \/ lazy' # lazy) =>
             (pc = "callback" /\ idx <= num_scenarios(data))
       /\ \A yz \in Solutions(data) :
             MasterFeasible(data, params.alpha, constrs' \cup lazy', yz[1], yz[2])
                => MasterFeasible(data, params.alpha, constrs \cup lazy, yz[1], yz[2])
      ]_vars

\* A callback adds a cut while a cut of an earlier callback is in force.
C10_Witness ==
    /\ Evaluated
    /\ AddedNow # {}
    /\ lazy \ AddedNow # {}

\* The (y, z) the master allows under the constraints cs.
MasterRegion(cs) ==
    {yz \in Solutions(data) :
        MasterFeasible(data, params.alpha, cs, yz[1], yz[2])}

\* The optimal objective of the master (a minimisation) under cs, when
\* the master is feasible.
MasterOptimum(cs) == SetMin({Cost(data, yz[1]) : yz \in MasterRegion(cs)})

\* C11 as stated: a step that adds a cut never increases the optimal
\* objective of the master.
C11_OptimumNeverIncreases ==
    [][MasterRegion(constrs' \cup lazy') # {}
        => MasterOptimum(constrs' \cup lazy') <= MasterOptimum(constrs \cup lazy)]_vars

\* C11, amended: the master minimises, so a step that adds a cut never
\* decreases its optimal objective: the region after the step is a subset
\* of the region before, and when the master is still feasible its optimum
\* is at least what it was.
C11_OptimumNeverDecreases ==
    [][/\ MasterRegion(constrs' \cup lazy') \subseteq MasterRegion(constrs \cup lazy)
       /\ MasterRegion(constrs' \cup lazy') # {}
            => MasterOptimum(constrs' \cup lazy') >= MasterOptimum(constrs \cup lazy)]_vars

\* Cuts have been added and the master's optimum is above the optimum of
\* the master as constructed.
C11_Witness ==
    /\ lazy # {}
    /\ MasterRegion(constrs \cup lazy) # {}
    /\ MasterOptimum(constrs \cup lazy) > MasterOptimum(constrs)


-----------------------------------------------------------------------------
(* The deterministic equivalent against the decomposition.                 *)

\* The results run_deq gives on the instance and parameters of this run.
DeqOutcomes == DeqResults(data, params.alpha, create_model(data, params.no_vis))

-----------------------------------------------------------------------------
(* The end-to-end example.                                                 *)

ExampleEnded == pc = "returned" /\ status = "OPTIMAL"

-----------------------------------------------------------------------------
(* Re-solving a subproblem.                                                *)

\* update_rhs(y); solve() on sub
Evaluate(sub, y) == solve(data, update_rhs(data, sub, y))

\* What an evaluation yields: the subproblem (right-hand side, stored y,
\* objective), the verdict, and the cuts of the optimal duals.
Yield(sub) == <<sub, is_feasible(sub), feasibility_cut(data, sub)>>

\* The scenario the callback evaluates in this step, or 0.
EvaluatedInStep ==
    IF pc = "callback" /\ idx <= num_scenarios(data) /\ idx' = idx + 1
       /\ ~Waived(cand.z[idx])
    THEN idx
    ELSE 0

-----------------------------------------------------------------------------
(* Configuration errors.                                                   *)

\* Two commodities of the fields f share their origin and destination.
DuplicatePair(f) ==
    \E j, k \in 1 .. Len(f.commodities) :
        /\ j < k
        /\ f.commodities[j].from_node = f.commodities[k].from_node
        /\ f.commodities[j].to_node = f.commodities[k].to_node

Misconfigured(f) ==
    IF f.kind = "Node"
    THEN f.is_source /\ f.is_sink
    ELSE DuplicatePair(f) \/ \E s \in 1 .. Len(f.probabilities) : f.probabilities[s] <= 0

\* C15: a ProblemData with two commodities on the same origin-destination
\* pair or with a probability <= 0, and a Node that is both source and sink,
\* is refused when it is constructed: the constructor raises and there is no
\* instance; all other fields are accepted.
C15_ConfigurationErrors ==
    /\ pc = "constructed" => ~Misconfigured(data) /\ result = data
    /\ pc = "raised"
        => /\ Misconfigured(data)
           /\ result = None
           /\ calls[1].raised = "ValueError"
    /\ pc = "construct" /\ Misconfigured(data) => ~ENABLED Construct

C15_Witness ==
    /\ pc = "raised"
    /\ data.kind = "ProblemData"
    /\ ~DuplicatePair(data)
    /\ \E s \in 1 .. Len(data.probabilities) : data.probabilities[s] = 0


-----------------------------------------------------------------------------
(* The right-hand side after update_rhs.                                   *)

\* h[r] - (T y)[r] for scenario s
Shifted(s, y, r) ==
    hrow(data, s, r)
        - SumTo([a \in 1 .. num_arcs(data) |-> Tcoef(data, r, a) * y[a]],
                num_arcs(data))

\* The vectors update_rhs may be given: binary up to a residue of the
\* solver, which can make an entry negative.
NearBinary == [1 .. num_arcs(data) -> {-1, 0, 1}]

\* C16: after update_rhs(y) every row r of the subproblem has the
\* right-hand side max(0, h[r] - (T y)[r]), also for a y that makes an
\* entry negative, and the data the subproblem takes T, W and h from (the
\* instance and its scenario) is unchanged.
C16_RhsClamped ==
    [][EvaluatedInStep # 0
        => \E s \in {EvaluatedInStep} :
              /\ \A r \in Rows(data) :
                    subs'[s].rhs[r]
                        = IF Shifted(s, cand.y, r) < 0 THEN 0 ELSE Shifted(s, cand.y, r)
              /\ \A y \in NearBinary, r \in Rows(data) :
                    update_rhs(data, subs[s], y).rhs[r]
                        = IF Shifted(s, y, r) < 0 THEN 0 ELSE Shifted(s, y, r)
              /\ subs'[s].scenario = subs[s].scenario
              /\ hvec(data', subs'[s].scenario) = hvec(data, subs[s].scenario)
              /\ data' = data]_vars

C16_Witness ==
    /\ pc = "callback"
    /\ idx > 1
    /\ ~Waived(cand.z[1])
    /\ subs[1].y = cand.y
    /\ \E r \in Rows(data) : subs[1].rhs[r] > hrow(data, 1, r)
    /\ \E y \in NearBinary, r \in Rows(data) : Shifted(1, y, r) < 0


-----------------------------------------------------------------------------
(* A solve that does not end optimal.                                      *)

\* The last call was a solve() that returned with the model not optimal.
NonOptimalSolveReturned ==
    /\ calls # << >>
    /\ calls[1].op = "solve"
    /\ "returned" \in DOMAIN calls[1].arg
    /\ calls[1].arg.status # "OPTIMAL"

\* C17: solve() fails whenever the solve does not end with status optimal:
\* it never returns with the model in another status.
C17_SolveFailsWhenNotOptimal == ~NonOptimalSolveReturned


-----------------------------------------------------------------------------
(* The subproblem of every formulation.                                    *)

\* Every subproblem that has been solved has an objective >= 0 that is 0
\* exactly when the y it was solved for carries its scenario.
ObjectiveMeasuresInfeasibility ==
    \A s \in 1 .. Len(subs) :
        subs[s].status = "OPTIMAL"
            => /\ objective(subs[s]) >= 0
               /\ objective(subs[s]) = 0 <=> CanCarry(data, subs[s].y, s)

\* C18: each of the four formulations gives, for every scenario and every
\* binary y, a subproblem that can be solved, with an objective >= 0 that
\* is 0 exactly when y supports a feasible flow for the scenario.
C18_EveryVariantMeasures ==
    /\ pc # "raised"
    /\ Len(subs) = num_scenarios(data) => \A s \in 1 .. Len(subs) :
            ENABLED EvaluateSubProblem(s, [a \in 1 .. num_arcs(data) |-> 0])
    /\ ObjectiveMeasuresInfeasibility


-----------------------------------------------------------------------------
(* The combinatorial cut.                                                  *)

\* The combinatorial cuts the current callback has handed to the solver,
\* as pairs of scenario and cut.
CombinatorialCutsNow ==
    {<<calls[i].scen, calls[i].arg>> :
        i \in {j \in 1 .. Len(calls) : calls[j].op = "cbLazy"}}

\* y2 builds every arc of y1 and at least one more.
StrictlyLarger(y1, y2) ==
    /\ \A a \in 1 .. Len(y1) : y1[a] <= y2[a]
    /\ \E a \in 1 .. Len(y1) : y1[a] < y2[a]

\* C19: a combinatorial cut derived at an incumbent (y, z) with an arc that
\* is not built, for a scenario that is not waived and infeasible at y, is
\* violated by (y, z), is satisfied by every y that builds the arcs of the
\* incumbent and at least one more, with any z, and is satisfied by every
\* (y, z) that waives the scenario.
C19_CombinatorialCut ==
    \A sc \in CombinatorialCutsNow :
        LET s == sc[1]
            cut == sc[2]
        IN  /\ cand.z[s] = 0
            /\ ~CanCarry(data, cand.y, s)
            /\ cut \in lazy
            /\ (\E a \in 1 .. num_arcs(data) : cand.y[a] = 0)
                => /\ ~Satisfies(cand.y, cand.z, cut)
                   /\ \A yz \in Solutions(data) :
                         /\ StrictlyLarger(cand.y, yz[1]) => Satisfies(yz[1], yz[2], cut)
                         /\ yz[2][s] = 1 => Satisfies(yz[1], yz[2], cut)

C19_Witness ==
    /\ CombinatorialCutsNow # {}
    /\ \E a \in 1 .. num_arcs(data) : cand.y[a] = 0
    /\ \E a \in 1 .. num_arcs(data) : cand.y[a] = 1


-----------------------------------------------------------------------------
(* The order of the scenarios in the loop of the callback.                 *)

\* What the loop reads and writes.
LoopState == [subs |-> subs, constrs |-> constrs, lazy |-> lazy]

\* The states one pass of the loop body for scenario s may lead to from st
\* (lines 173-193).
PassOutcomes(s, st, y, z) ==
    IF Waived(z[s])
    THEN {st}
    ELSE UNION {
           IF is_feasible(sub)
           THEN {[st EXCEPT !.subs[s] = sub]}
           ELSE {LET first == add_cut(st.constrs, st.lazy, cut, TRUE)
                 IN  [subs |-> [st.subs EXCEPT ![s] = sub],
                      constrs |-> first[1],
                      lazy |-> IF params.with_combinatorial_cut
                               THEN first[2] \cup {CombinatorialCut(data, y, sub.scenario)}
                               ELSE first[2]] :
                    cut \in feasibility_cut(data, sub)} :
           sub \in {solve(data, update_rhs(data, st.subs[s], y))}}

\* The states the loop may end in when it takes the scenarios in the given
\* order.
RECURSIVE LoopOutcomes(_, _, _, _)
LoopOutcomes(order, sts, y, z) ==
    IF order = << >>
    THEN sts
    ELSE LoopOutcomes(Tail(order),
                      UNION {PassOutcomes(Head(order), st, y, z) : st \in sts},
                      y, z)

Orders ==
    {o \in [AllScenarios -> AllScenarios] :
        \A i, j \in AllScenarios : o[i] = o[j] => i = j}

-----------------------------------------------------------------------------
(* What add_cut adds to the master.                                        *)

\* gamma * z[scen] + beta . y >= gamma, written out
Holds(cut, y, z) ==
    cut.gamma * z[cut.scen]
        + SumTo([a \in 1 .. num_arcs(data) |-> cut.beta[a] * y[a]], num_arcs(data))
    >= cut.gamma

\* The (y, z) that satisfy every constraint of cs.
Region(cs) == {yz \in Solutions(data) : \A c \in cs : Satisfies(yz[1], yz[2], c)}

\* The constraints a step adds to the master.
NewConstraints == (constrs' \cup lazy') \ (constrs \cup lazy)

\* C21: a call of add_cut adds one constraint, the inequality
\* gamma * z[cut.scen] + beta . y >= gamma over y and z: as a lazy
\* constraint, and only inside the callback, when lazy is true, and as a
\* constraint of the model when lazy is false.  Both modes add the same
\* inequality, and every other constraint and the data stay as they are.
C21_AddCutInsertsInequality ==
    [][/\ constrs \subseteq constrs'
       /\ lazy \subseteq lazy'
       /\ lazy' # lazy => pc = "callback" /\ constrs' = constrs
       /\ constrs' # constrs => pc = "search" /\ lazy' = lazy
       /\ Cardinality(NewConstraints) <= 1
       /\ data' = data
       /\ \A cut \in NewConstraints :
             /\ Region(constrs' \cup lazy')
                  = {yz \in Region(constrs \cup lazy) : Holds(cut, yz[1], yz[2])}
             /\ add_cut(constrs, lazy, cut, TRUE)[2] \ lazy
                  = add_cut(constrs, lazy, cut, FALSE)[1] \ constrs
             /\ add_cut(constrs, lazy, cut, TRUE)[1] = constrs
             /\ add_cut(constrs, lazy, cut, FALSE)[2] = lazy]_vars

\* A cut was added as a constraint before the search and another one as a
\* lazy constraint in the callback.
C21_Witness ==
    /\ constrs \ create_model(data, params.no_vis) # {}
    /\ lazy # {}
    /\ lazy \cap constrs = {}


-----------------------------------------------------------------------------
(* The feasibility cut.                                                    *)

\* The feasibility cuts the current callback has added, as pairs of
\* scenario and cut.
FeasibilityCutsNow ==
    {<<calls[i].scen, calls[i].arg>> :
        i \in {j \in 1 .. Len(calls) : calls[j].op = "add_cut"}}

\* (duals' T)[a]
DualsTimesT(duals, a) ==
    SumTo([r \in Rows(data) |-> duals[r] * Tcoef(data, r, a)], NumRows(data))

\* duals . h for scenario s, h being the right-hand side the subproblem was
\* built with
DualsTimesH(duals, s) ==
    SumTo([r \in Rows(data) |-> duals[r] * hrow(data, s, r)], NumRows(data))

\* C22: without metric cuts, the feasibility cut of a solved subproblem has
\* beta = duals' T and gamma = duals . h for optimal duals of the last
\* solve, h being the original right-hand side, and carries the
\* subproblem's scenario.
C22_BasicFeasibilityCut ==
    [](params.without_metric_cuts
        => \A sc \in FeasibilityCutsNow :
              /\ sc[2].scen = subs[sc[1]].scenario
              /\ sc[2].scen = sc[1]
              /\ \E duals \in OptimalDuals(data, subs[sc[1]].rhs) :
                    /\ \A a \in 1 .. num_arcs(data) :
                          sc[2].beta[a] = DualsTimesT(duals, a)
                    /\ sc[2].gamma = DualsTimesH(duals, sc[1]))

\* A basic feasibility cut was added whose constant differs from what the
\* clamped right-hand side would give.
C22_Witness ==
    /\ params.without_metric_cuts
    /\ \E sc \in FeasibilityCutsNow :
          /\ \E a \in 1 .. num_arcs(data) : cand.y[a] = 1
          /\ \E a \in 1 .. num_arcs(data) : sc[2].beta[a] # 0
          /\ \E duals \in OptimalDuals(data, subs[sc[1]].rhs) :
                /\ sc[2].gamma = DualsTimesH(duals, sc[1])
                /\ sc[2].gamma # Dot(duals, subs[sc[1]].rhs)


-----------------------------------------------------------------------------
(* The metric constant of the feasibility cut.                             *)

\* The sequences of arcs that form a path from node `from` to node `to`
\* without visiting a node twice.
SimplePaths(from, to) ==
    {p \in UNION {[1 .. n -> 1 .. num_arcs(data)] : n \in 1 .. data.num_nodes - 1} :
        /\ data.arcs[p[1]].from_node = from
        /\ data.arcs[p[Len(p)]].to_node = to
        /\ \A i \in 1 .. Len(p) - 1 :
              data.arcs[p[i]].to_node = data.arcs[p[i + 1]].from_node
        /\ \A i, j \in 1 .. Len(p) :
              data.arcs[p[i]].from_node = data.arcs[p[j]].from_node => i = j}

\* The weight of arc a: max(0, -dual of its capacity row).
ArcWeight(duals, a) == IF duals[a] < 0 THEN 0 - duals[a] ELSE 0

\* The distance from the origin to the destination of commodity k.
Distance(duals, k) ==
    SetMin({SumTo([i \in 1 .. Len(p) |-> ArcWeight(duals, p[i])], Len(p)) :
              p \in SimplePaths(data.commodities[k].from_node,
                                data.commodities[k].to_node)})

\* sum over the commodities of demand times distance
MetricConstant(duals, s) ==
    SumTo([k \in 1 .. num_commodities(data) |->
             data.commodities[k].demands[s] * Distance(duals, k)],
          num_commodities(data))

\* Duals with any sign on the capacity rows: a residue of the solver can
\* make the dual of a "<" row positive.
AnySignDuals ==
    {[r \in Rows(data) |-> IF r <= num_arcs(data) THEN w[r] ELSE 0] :
        w \in [1 .. num_arcs(data) -> {-1, 0, 1}]}

\* C23: with metric cuts the feasibility cut has the beta of the basic cut
\* and gamma = sum over the commodities of the demand in the scenario times
\* the shortest-path distance from origin to destination under the weights
\* max(0, -dual of the capacity row), for the optimal duals and for every
\* other dual vector, also one that makes a weight negative; without metric
\* cuts gamma = duals . h.
C23_MetricFeasibilityCut ==
    [](\A sc \in FeasibilityCutsNow :
          /\ \E duals \in OptimalDuals(data, subs[sc[1]].rhs) :
                /\ \A a \in 1 .. num_arcs(data) :
                      sc[2].beta[a] = DualsTimesT(duals, a)
                /\ sc[2].gamma = IF params.without_metric_cuts
                                 THEN DualsTimesH(duals, sc[1])
                                 ELSE MetricConstant(duals, sc[1])
          /\ ~params.without_metric_cuts
                => \A duals \in AnySignDuals \cup DualFeasibleSet[NetOf(data)] :
                      FeasibilityCutOf(data, subs[sc[1]], duals).gamma
                        = MetricConstant(duals, sc[1]))

\* A metric cut was added, and there are feasible duals for which the
\* metric constant differs from duals . h.
C23_Witness ==
    /\ ~params.without_metric_cuts
    /\ \E sc \in FeasibilityCutsNow :
          /\ sc[2].gamma > 0
          /\ \E duals \in DualFeasibleSet[NetOf(data)] :
                MetricConstant(duals, sc[1]) # DualsTimesH(duals, sc[1])


-----------------------------------------------------------------------------
(* The cutset inequalities.                                                *)

\* The flow of commodity k on arc a in the solution fl.
FlowOn(fl, a, k) ==
    LET at == {i \in 1 .. Len(Cols(data)) : Cols(data)[i] = <<a, k>>}
    IN  IF at = {} THEN 0 ELSE fl.x[CHOOSE i \in at : TRUE]

\* The flow of commodity k on the arcs that leave its origin.
OwnOutflow(fl, k) ==
    LET out == arc_indices_from(data, data.commodities[k].from_node)
    IN  SumOver([a \in out |-> FlowOn(fl, a, k)], out)

\* capacity * y - total flow, per arc
Residual(sub, fl) ==
    [a \in 1 .. num_arcs(data) |->
        data.arcs[a].capacity * sub.y[a]
        - SumTo([k \in 1 .. num_commodities(data) |-> FlowOn(fl, a, k)],
                num_commodities(data))]

\* The minimum cuts between origin and destination of commodity k under the
\* residual capacities.
MinimumCuts(sub, fl, k) ==
    LET cuts == STCuts(data, data.commodities[k].from_node, data.commodities[k].to_node)
        least == SetMin({CutValue(Residual(sub, fl), c) : c \in cuts})
    IN  {c \in cuts : CutValue(Residual(sub, fl), c) = least}

\* C24: after a solve, cutset_inequalities yields no cut for a commodity
\* whose flow out of its origin covers its demand and one cut for every
\* other commodity: beta is the capacity on the arcs of a minimum cut of the
\* residual network and 0 elsewhere, gamma is the commodity's demand and
\* the scenario is the subproblem's.
C24_CutsetInequalities ==
    \A s \in AllScenarios :
        InfeasibleAt(s) =>
            \A fl \in OptimalPrimal(data, subs[s].rhs) :
                \A k \in 1 .. num_commodities(data) :
                    LET yielded == CutsetOfCommodity(data, subs[s], fl, k)
                        demand == data.commodities[k].demands[s]
                    IN  IF OwnOutflow(fl, k) >= demand
                        THEN yielded = {}
                        ELSE /\ yielded # {}
                             /\ \A cut \in yielded :
                                   /\ cut.gamma = demand
                                   /\ cut.scen = s
                                   /\ \E c \in MinimumCuts(subs[s], fl, k) :
                                         cut.beta = [a \in 1 .. num_arcs(data) |->
                                                       IF a \in c
                                                       THEN data.arcs[a].capacity
                                                       ELSE 0]

-----------------------------------------------------------------------------
(* C25: the per-scenario steps inside one incumbent evaluation.            *)

\* The calls the callback made for scenario s, in order.
CallsFor(log, s) == SelectSeq(log, LAMBDA c : c.scen = s)

OpsOf(log) == [i \in 1 .. Len(log) |-> log[i].op]

\* The stage of scenario s in the running evaluation, read from the log.
Stage(log, s) ==
    LET ops == OpsOf(CallsFor(log, s))
    IN  IF ops = << >> THEN "NotEvaluated"
        ELSE IF Len(ops) = 3 /\ CallsFor(log, s)[3].arg THEN "Feasible"
        ELSE IF Len(ops) > 3 THEN "CutsEmitted"
        ELSE "Infeasible"

\* The calls of one evaluated scenario, given its verdict.
ExpectedOps(verdict) ==
    << "update_rhs", "solve", "is_feasible" >>
        \o (IF verdict THEN << >>
            ELSE << "add_cut" >>
                 \o (IF params.with_combinatorial_cut THEN << "cbLazy" >> ELSE << >>))

-----------------------------------------------------------------------------
(* The memoized index lists of ProblemData and the code that holds a       *)
(* reference to the instance: _create_subproblem of                        *)
(* src/src/functions/create_subproblems.py and make_problem_data of        *)
(* src/instances/make_files.py.  result holds the instance as the          *)
(* constructor returned it.                                                *)

MaxScenarios == 3

\* [idx for idx, arc in enumerate(self.arcs) if ...]: the indices in
\* increasing order.
RECURSIVE ListOf(_)
ListOf(S) ==
    IF S = {} THEN << >>
    ELSE LET least == SetMin(S) IN << least >> \o ListOf(S \ {least})

\* list.index(value), counted from 1
IndexIn(list, value) == CHOOSE i \in 1 .. Len(list) : list[i] = value

\* The @cache wrapper: the memoized list object when there is one, else
\* the list the method computes.
Memo(c, method, node, computed) ==
    IF c[method][node].cached THEN c[method][node].value ELSE computed

\* The memo holds (a reference to) the list that was returned.
Remember(c, method, node, list) == [c EXCEPT ![method][node] = Cached(list)]

CacheInit ==
    /\ data \in Instances
    /\ cache = EmptyCache(data)
    /\ result = data
    /\ pc = "create"
    /\ params = None
    /\ subs = << >>
    /\ calls = << >>
    /\ constrs = {}
    /\ lazy = {}
    /\ cand = None
    /\ idx = 0
    /\ incumbent = None
    /\ status = "LOADED"
    /\ lower_bounds = << >>
    /\ incumbent_objs = << >>
    /\ run_times = << >>

CacheFrame ==
    UNCHANGED <<params, constrs, lazy, subs, cand, idx, incumbent, status,
                lower_bounds, incumbent_objs, run_times, result>>

\* data.arc_indices_from(node), called by any holder of the instance
ArcIndicesFrom(node) ==
    \E list \in {Memo(cache, "arc_indices_from", node,
                      ListOf(arc_indices_from(data, node)))} :
        /\ cache' = Remember(cache, "arc_indices_from", node, list)
        /\ calls' = << Call("arc_indices_from", node, list) >>
        /\ UNCHANGED <<data, pc>>
        /\ CacheFrame

\* data.arc_indices_to(node)
ArcIndicesTo(node) ==
    \E list \in {Memo(cache, "arc_indices_to", node,
                      ListOf(arc_indices_to(data, node)))} :
        /\ cache' = Remember(cache, "arc_indices_to", node, list)
        /\ calls' = << Call("arc_indices_to", node, list) >>
        /\ UNCHANGED <<data, pc>>
        /\ CacheFrame

\* The loop over the nodes of _create_subproblem (lines 54-101), up to and
\* including `node`: arc_idcs_from and arc_idcs_to are the memoized lists
\* themselves, and the artificial arcs of an origin and of a destination are
\* appended to them in place.
RECURSIVE BalanceLoop(_, _, _)
BalanceLoop(d, c, node) ==
    IF node = 0 THEN c
    ELSE LET before == BalanceLoop(d, c, node - 1)
             orig == ListOf(origins(d))
             dest == ListOf(destinations(d))
             arc_idcs_from == Memo(before, "arc_indices_from", node,
                                   ListOf(arc_indices_from(d, node)))
             arc_idcs_to == Memo(before, "arc_indices_to", node,
                                 ListOf(arc_indices_to(d, node)))
             to_after == IF node \in origins(d)
                         THEN Append(arc_idcs_to, num_arcs(d) + IndexIn(orig, node))
                         ELSE arc_idcs_to
             from_after == IF node \in destinations(d)
                           THEN Append(arc_idcs_from,
                                       num_arcs(d) + Len(orig) + IndexIn(dest, node))
                           ELSE arc_idcs_from
         IN  Remember(Remember(before, "arc_indices_from", node, from_after),
                      "arc_indices_to", node, to_after)

\* create_subproblems(data, cls): _create_subproblem for the first scenario
\* builds its model and ends with cls(T, W, h, senses, vname, cname, scen),
\* seven positional arguments for the three parameters of
\* SubProblem.__init__ (data, scen, without_metric_cuts): a TypeError, which
\* ends create_subproblems.
CreateSubproblems ==
    /\ pc = "create"
    /\ num_scenarios(data) >= 1
    /\ cache' = BalanceLoop(data, cache, data.num_nodes)
    /\ pc' = "raised"
    /\ calls' = << Call("cls", 1, Raised("TypeError")) >>
    /\ UNCHANGED data
    /\ CacheFrame

\* make_problem_data(data, scenarios) of make_files.py (lines 22-26): every
\* scenario is appended to the lists of the instance.  __hash__ of
\* ProblemData counts the scenarios, so the entries memoized for the
\* instance are no longer found afterwards.
RECURSIVE AppendScenarios(_, _)
AppendScenarios(d, scenarios) ==
    IF scenarios = << >> THEN d
    ELSE LET prob == Head(scenarios)[1]
             demands == Head(scenarios)[2]
             next == [d EXCEPT
                        !.probabilities = Append(@, prob),
                        !.commodities =
                            [k \in 1 .. num_commodities(d) |->
                                [@[k] EXCEPT !.demands = Append(@, demands[k])]]]
         IN  AppendScenarios(next, Tail(scenarios))

make_problem_data(scenarios) ==
    /\ pc = "create"
    /\ num_scenarios(data) + Len(scenarios) <= MaxScenarios
    /\ data' = AppendScenarios(data, scenarios)
    /\ cache' = EmptyCache(data)
    /\ UNCHANGED <<pc, calls>>
    /\ CacheFrame

\* The scenarios a file of the generator holds: a probability and one
\* demand per commodity.
ScenarioLists ==
    LET one == {1} \X [1 .. num_commodities(data) -> {1, 2}]
    IN  UNION {[1 .. n -> one] : n \in 1 .. MaxScenarios}

CacheNext ==
    \/ \E node \in 1 .. data.num_nodes : ArcIndicesFrom(node)
    \/ \E node \in 1 .. data.num_nodes : ArcIndicesTo(node)
    \/ CreateSubproblems
    \/ \E scenarios \in ScenarioLists : make_problem_data(scenarios)

CacheSpec == CacheInit /\ [][CacheNext]_vars

\* Every memoized list holds exactly the indices of the arcs that start,
\* respectively end, at its node.
IndexListsExact ==
    \A node \in 1 .. data.num_nodes :
        /\ cache.arc_indices_from[node].cached =>
             cache.arc_indices_from[node].value = ListOf(arc_indices_from(data, node))
        /\ cache.arc_indices_to[node].cached =>
             cache.arc_indices_to[node].value = ListOf(arc_indices_to(data, node))

\* C26: the network data is frozen after construction: the instance is the
\* one the constructor returned, and arc_indices_from(node) and
\* arc_indices_to(node) return exactly the indices of the arcs that start,
\* respectively end, at the node, also after subproblems were created.
C26_NetworkDataFrozen ==
    /\ data = result
    /\ IndexListsExact

-----------------------------------------------------------------------------
(* C27: the objective of the Result.                                       *)

\* Result.objective: the last recorded incumbent objective
ResultObjective(res) == res.objectives[Len(res.objectives)]

-----------------------------------------------------------------------------
(* C28: the histories of the callback.                                     *)

\* list.append added exactly one entry
OneAppended(before, after) ==
    /\ Len(after) = Len(before) + 1
    /\ SubSeq(after, 1, Len(before)) = before

\* A step in which the callback is entered with where = MIPSOL.
MipsolStep == pc = "search" /\ pc' = "callback"

\* C28: the bound, objective and run-time histories start empty and always
\* have the same length; a MIPSOL callback appends exactly one entry to
\* each of them, so that the length counts the MIPSOL callbacks; no other
\* step appends to them, and subproblems are evaluated and cuts added only
\* inside a MIPSOL callback.
C28_HistoriesInStep ==
    /\ (lower_bounds = << >> /\ incumbent_objs = << >> /\ run_times = << >>)
    /\ [](Len(lower_bounds) = Len(incumbent_objs) /\ Len(run_times) = Len(incumbent_objs))
    /\ [][IF MipsolStep
          THEN /\ OneAppended(lower_bounds, lower_bounds')
               /\ OneAppended(incumbent_objs, incumbent_objs')
               /\ OneAppended(run_times, run_times')
               /\ incumbent_objs'[Len(incumbent_objs')] = Cost(data, cand'.y)
               /\ UNCHANGED <<subs, lazy, constrs>>
          ELSE /\ UNCHANGED <<lower_bounds, incumbent_objs, run_times>>
               /\ (subs' # subs \/ lazy' # lazy \/ constrs' # constrs)
                    => (pc = "callback" /\ incumbent_objs # << >>)]_vars

\* A second MIPSOL callback is running, the first one having added a cut,
\* and the solver reported the same bound twice.
C28_Witness ==
    /\ pc = "callback"
    /\ Len(incumbent_objs) = 2
    /\ lazy # {}
    /\ lower_bounds[1] = lower_bounds[2]

-----------------------------------------------------------------------------
(* C29: the valid inequalities of _add_vis.                                *)

\* The least cost of an admissible (y, z); it does not depend on no_vis.
LeastAdmissibleCost(pairs) == SetMin({Cost(data, yz[1]) : yz \in pairs})

-----------------------------------------------------------------------------
(* C30: what the methods of a subproblem change.                           *)

\* The method called in the step and the scenario of its subproblem.
StepOp == calls'[1].op

StepScen == calls'[1].scen

Queries == {"is_feasible", "objective", "feasibility_cut", "cutset_inequalities"}

\* C30: a subproblem is changed only by update_rhs and solve.  update_rhs
\* changes the right-hand side and the stored y and nothing else; solve
\* changes neither; feasibility_cut, cutset_inequalities, is_feasible and
\* objective change no subproblem; no method changes the data (T, W, h),
\* the vector y the caller holds, or the subproblem of another scenario.
C30_SubProblemChanges ==
    [][/\ data' = data
       /\ cand' = cand
       /\ calls' # << >>
       /\ \A t \in AllScenarios \ {StepScen} : subs'[t] = subs[t]
       /\ \E before \in {subs[StepScen]} : \E after \in {subs'[StepScen]} :
            /\ after.scenario = before.scenario
            /\ after.without_metric_cuts = before.without_metric_cuts
            /\ StepOp \in Queries => after = before
            /\ StepOp = "solve" => (after.rhs = before.rhs /\ after.y = before.y)
            /\ StepOp = "update_rhs" =>
                 /\ after.status = before.status
                 /\ after.objVal = before.objVal
                 /\ after.rhs = ClampedRhs(data, StepScen, after.y)
            /\ after # before => StepOp \in {"update_rhs", "solve"}]_vars

\* Cuts were derived from the solved subproblem of one scenario while the
\* subproblem of another scenario holds a different y.
C30_Witness ==
    /\ calls # << >>
    /\ calls[1].op \in {"feasibility_cut", "cutset_inequalities"}
    /\ "returned" \in DOMAIN calls[1].arg
    /\ \E t \in AllScenarios :
         /\ t # calls[1].scen
         /\ subs[t].status = "OPTIMAL"
         /\ subs[t].y # subs[calls[1].scen].y
         /\ subs[t].rhs # NewSubProblem(data, t, params.without_metric_cuts).rhs

=============================================================================
